---------------------------- MODULE Spec2Model ----------------------------
(***************************************************************************)
(* Revision generation of tanglesdev/posts: GenerateRevision and the       *)
(* differs it calls (diffAuthors, diffParts, diffHeaders,                  *)
(* deltaFromStrings), as a state machine whose initial states are the      *)
(* pairs of Posts handed to GenerateRevision and whose one action is the   *)
(* call; and PostFilter.IsEmpty of the storer, likewise a call on a        *)
(* PostFilter drawn by the initial state.                                  *)
(*                                                                         *)
(* Go slices are 0-based; sequences here are 1-based, so the position of   *)
(* the element s[i] is i - 1.  A string is a sequence of one-character     *)
(* strings.                                                                *)
(***************************************************************************)
EXTENDS Integers, Sequences, FiniteSets, TLC

VARIABLES p1, p2, pc, rev, err, filter, pcFilter, isEmpty

vars == <<p1, p2, pc, rev, err, filter, pcFilter, isEmpty>>

-----------------------------------------------------------------------------
(* DeltaOp and its constants; Unset is the zero value of the string type.  *)

DeltaAdd == "add"
DeltaRemove == "rm"
DeltaUpdate == "up"
DeltaMove == "mv"
DeltaMoveUpdate == "mvup"
Unset == ""

-----------------------------------------------------------------------------
(* Text deltas: diffmatchpatch as deltaFromStrings drives it.              *)

DiffEqual == "="
DiffInsert == "+"
DiffDelete == "-"

Diff(type, text) == [Type |-> type, Text |-> text]

Take(s, n) == SubSeq(s, 1, n)

Drop(s, n) == SubSeq(s, n + 1, Len(s))

RECURSIVE commonPrefixLength(_, _)
commonPrefixLength(t1, t2) ==
  IF t1 = <<>> \/ t2 = <<>> \/ Head(t1) # Head(t2) THEN 0
  ELSE 1 + commonPrefixLength(Tail(t1), Tail(t2))

RECURSIVE commonSuffixLength(_, _)
commonSuffixLength(t1, t2) ==
  IF t1 = <<>> \/ t2 = <<>> \/ t1[Len(t1)] # t2[Len(t2)] THEN 0
  ELSE 1 + commonSuffixLength(Take(t1, Len(t1) - 1), Take(t2, Len(t2) - 1))

(* Index of the first occurrence of short in long, 0-based; -1 when none.  *)
runesIndex(long, short) ==
  LET at == {i \in 0..(Len(long) - Len(short)) :
               SubSeq(long, i + 1, i + Len(short)) = short}
  IN IF at = {} THEN -1 ELSE CHOOSE i \in at : \A j \in at : i <= j

(* The middle block, after the common prefix and suffix are trimmed.  The  *)
(* last branch stands for the single-character case and for the bisection  *)
(* of two texts that share no character, both of which give a deletion     *)
(* followed by an insertion.                                               *)
diffCompute(t1, t2) ==
  IF t1 = <<>> THEN <<Diff(DiffInsert, t2)>>
  ELSE IF t2 = <<>> THEN <<Diff(DiffDelete, t1)>>
  ELSE LET long == IF Len(t1) > Len(t2) THEN t1 ELSE t2
           short == IF Len(t1) > Len(t2) THEN t2 ELSE t1
           i == runesIndex(long, short)
           op == IF Len(t1) > Len(t2) THEN DiffDelete ELSE DiffInsert
       IN IF i # -1
          THEN <<Diff(op, Take(long, i)), Diff(DiffEqual, short),
                 Diff(op, Drop(long, i + Len(short)))>>
          ELSE <<Diff(DiffDelete, t1), Diff(DiffInsert, t2)>>

(* Second pass of the merge cleanup: a single edit between two equalities  *)
(* slides over the equality it ends (or starts) with.  Texts of up to      *)
(* three characters give at most one such edit, and the first pass (the    *)
(* merging of adjacent edits) finds nothing to merge in what diffCompute   *)
(* returns for them.                                                       *)
IsSuffix(s, t) == Len(s) <= Len(t) /\ Drop(t, Len(t) - Len(s)) = s

IsPrefix(s, t) == Len(s) <= Len(t) /\ Take(t, Len(s)) = s

DiffCleanupMerge(diffs) ==
  IF Len(diffs) = 3 /\ diffs[1].Type = DiffEqual /\ diffs[3].Type = DiffEqual
     /\ diffs[2].Type # DiffEqual
  THEN LET prev == diffs[1].Text
           edit == diffs[2].Text
           next == diffs[3].Text
       IN IF IsSuffix(prev, edit)
          THEN <<Diff(diffs[2].Type, prev \o Take(edit, Len(edit) - Len(prev))),
                 Diff(DiffEqual, prev \o next)>>
          ELSE IF IsPrefix(next, edit)
          THEN <<Diff(DiffEqual, prev \o next),
                 Diff(diffs[2].Type, Drop(edit, Len(next)) \o next)>>
          ELSE diffs
  ELSE diffs

DiffMain(text1, text2) ==
  IF text1 = text2
  THEN IF Len(text1) > 0 THEN <<Diff(DiffEqual, text1)>> ELSE <<>>
  ELSE LET np == commonPrefixLength(text1, text2)
           a1 == Drop(text1, np)
           a2 == Drop(text2, np)
           ns == commonSuffixLength(a1, a2)
           m1 == Take(a1, Len(a1) - ns)
           m2 == Take(a2, Len(a2) - ns)
           pre == IF np # 0 THEN <<Diff(DiffEqual, Take(text1, np))>> ELSE <<>>
           suf == IF ns # 0 THEN <<Diff(DiffEqual, Drop(a1, Len(a1) - ns))>>
                  ELSE <<>>
       IN DiffCleanupMerge(pre \o diffCompute(m1, m2) \o suf)

(* Boundary score of the lossless cleanup for texts of letters and digits: *)
(* an edge of the text scores 6, any other boundary 0.                     *)
diffCleanupSemanticScore(one, two) ==
  IF Len(one) = 0 \/ Len(two) = 0 THEN 6 ELSE 0

(* The lossless cleanup slides a single edit between two equalities to the *)
(* boundary of the best score, the rightmost of the best ones.             *)
(* SlideRight is one candidate position of the edit, k characters          *)
(* to the right of its leftmost position.                                  *)
RECURSIVE SlideRight(_, _, _, _)
SlideRight(eq1, edit, eq2, k) ==
  IF k = 0 THEN <<eq1, edit, eq2>>
  ELSE SlideRight(Append(eq1, Head(edit)), Append(Tail(edit), Head(eq2)),
                  Tail(eq2), k - 1)

RECURSIVE MaxSlide(_, _)
MaxSlide(edit, eq2) ==
  IF edit # <<>> /\ eq2 # <<>> /\ Head(edit) = Head(eq2)
  THEN 1 + MaxSlide(Append(Tail(edit), Head(eq2)), Tail(eq2))
  ELSE 0

DiffCleanupSemanticLossless(diffs) ==
  IF Len(diffs) = 3 /\ diffs[1].Type = DiffEqual /\ diffs[3].Type = DiffEqual
     /\ diffs[2].Type # DiffEqual
  THEN LET c == commonSuffixLength(diffs[1].Text, diffs[2].Text)
           e1 == Take(diffs[1].Text, Len(diffs[1].Text) - c)
           ed == Drop(diffs[1].Text, Len(diffs[1].Text) - c)
                   \o Take(diffs[2].Text, Len(diffs[2].Text) - c)
           e2 == Drop(diffs[1].Text, Len(diffs[1].Text) - c) \o diffs[3].Text
           n == MaxSlide(ed, e2)
           score(k) == LET s == SlideRight(e1, ed, e2, k)
                       IN diffCleanupSemanticScore(s[1], s[2])
                          + diffCleanupSemanticScore(s[2], s[3])
           best == CHOOSE k \in 0..n :
                     /\ \A j \in 0..n : score(j) <= score(k)
                     /\ \A j \in (k + 1)..n : score(j) < score(k)
           b == SlideRight(e1, ed, e2, best)
       IN (IF b[1] # <<>> THEN <<Diff(DiffEqual, b[1])>> ELSE <<>>)
          \o <<Diff(diffs[2].Type, b[2])>>
          \o (IF b[3] # <<>> THEN <<Diff(DiffEqual, b[3])>> ELSE <<>>)
  ELSE diffs

(* The compact delta: "=n" keeps n characters, "-n" deletes n characters,  *)
(* "+text" inserts text.  The tokens are tab-separated in the Go string;   *)
(* here the delta is the sequence of tokens and "" is the empty sequence.  *)
DeltaToken(d) ==
  IF d.Type = DiffInsert THEN [Sign |-> "+", N |-> 0, Text |-> d.Text]
  ELSE [Sign |-> d.Type, N |-> Len(d.Text), Text |-> <<>>]

DiffToDelta(diffs) == [i \in 1..Len(diffs) |-> DeltaToken(diffs[i])]

EmptyString == <<>>

deltaFromStrings(str1, str2) ==
  DiffToDelta(DiffCleanupSemanticLossless(DiffMain(str1, str2)))

-----------------------------------------------------------------------------
(* Position maps.  Go builds map[key]int by ranging over the slice, so a   *)
(* repeated key keeps its last position; a lookup of a missing key yields  *)
(* ok = false and the zero position.                                       *)

Max(S) == CHOOSE x \in S : \A y \in S : y <= x

Lookup(keys, key) ==
  LET at == {i \in 1..Len(keys) : keys[i] = key}
  IN IF at = {} THEN [ok |-> FALSE, pos |-> 0]
     ELSE [ok |-> TRUE, pos |-> Max(at) - 1]

RECURSIVE Concat(_)
Concat(ss) == IF ss = <<>> THEN <<>> ELSE Head(ss) \o Concat(Tail(ss))

-----------------------------------------------------------------------------
(* diffAuthors *)

AuthorsDelta(op, from, to) ==
  [Op |-> op, FromPosition |-> from, ToPosition |-> to]

(* Variant: a missing author keeps the zero position of the map lookup.    *)
authorStepZeroPosition(a1, a2, author) ==
  LET l1 == Lookup(a1, author)
      l2 == Lookup(a2, author)
      opAdd == IF ~l1.ok THEN DeltaAdd ELSE Unset
      opRm == IF ~l2.ok THEN DeltaRemove ELSE opAdd
      op == IF l1.pos # l2.pos /\ opRm = Unset THEN DeltaMove ELSE opRm
  IN IF op = Unset THEN <<>> ELSE <<AuthorsDelta(op, l1.pos, l2.pos)>>

(* One iteration of the loop over longerAuthors: the deltas it appends.    *)
authorStep(a1, a2, author) ==
  LET l1 == Lookup(a1, author)
      l2 == Lookup(a2, author)
      pos1 == IF l1.ok THEN l1.pos ELSE -1
      pos2 == IF l2.ok THEN l2.pos ELSE -1
      opAdd == IF ~l1.ok THEN DeltaAdd ELSE Unset
      opRm == IF ~l2.ok THEN DeltaRemove ELSE opAdd
      op == IF pos1 # pos2 /\ opRm = Unset THEN DeltaMove ELSE opRm
  IN IF op = Unset THEN <<>> ELSE <<AuthorsDelta(op, pos1, pos2)>>

(* Variant: on equal lengths the second list is the one iterated.          *)
longerAuthorsTieAfter(a1, a2) == IF Len(a2) >= Len(a1) THEN a2 ELSE a1

longerAuthors(a1, a2) == IF Len(a2) > Len(a1) THEN a2 ELSE a1

(* Variant: the two lists are taken in the opposite order.                 *)
diffAuthorsExchanged(a1, a2) ==
  LET longer == longerAuthors(a2, a1)
  IN Concat([i \in 1..Len(longer) |-> authorStep(a2, a1, longer[i])])

diffAuthors(a1, a2) ==
  LET longer == longerAuthors(a1, a2)
  IN Concat([i \in 1..Len(longer) |-> authorStep(a1, a2, longer[i])])

-----------------------------------------------------------------------------
(* diffHeaders.  A header map is a function from the header names it holds *)
(* to sequences of values; indexing a missing name yields the nil slice.   *)

HeaderValues(h, header) == IF header \in DOMAIN h THEN h[header] ELSE <<>>

HeaderDelta(op, from, to, value) ==
  [Op |-> op, Header |-> "", FromPosition |-> from, ToPosition |-> to,
   Value |-> value]

headerStep(v1, v2, h) ==
  LET l1 == Lookup(v1, h)
      l2 == Lookup(v2, h)
      opAdd == IF ~l1.ok THEN DeltaAdd ELSE Unset
      opRm == IF ~l2.ok THEN DeltaRemove ELSE opAdd
      op == IF l1.pos # l2.pos /\ opRm = Unset THEN DeltaMove ELSE opRm
  IN IF op = Unset THEN <<>> ELSE <<HeaderDelta(op, l1.pos, l2.pos, h)>>

headerLonger(v1, v2) == IF Len(v2) > Len(v1) THEN v2 ELSE v1

headerDeltas(h1, h2, header) ==
  LET v1 == HeaderValues(h1, header)
      v2 == HeaderValues(h2, header)
      longer == headerLonger(v1, v2)
  IN Concat([i \in 1..Len(longer) |-> headerStep(v1, v2, longer[i])])

diffHeaders(h1, h2) ==
  LET headers == DOMAIN h1 \cup DOMAIN h2
      changed == {header \in headers : headerDeltas(h1, h2, header) # <<>>}
  IN [header \in changed |-> headerDeltas(h1, h2, header)]

-----------------------------------------------------------------------------
(* diffParts.  Its result is either the deltas or a run-time panic: the    *)
(* index expressions p1[pos1], p2[pos2] are evaluated for every part of    *)
(* the longer list, found or not.                                          *)

PartDelta(id, op, from, to, headers, body, shaFrom, shaTo) ==
  [PartID |-> id, Op |-> op, FromPosition |-> from, ToPosition |-> to,
   Headers |-> headers, Body |-> body, SHA256From |-> shaFrom,
   SHA256To |-> shaTo]

PartIDs(ps) == [i \in 1..Len(ps) |-> ps[i].ID]

InRange(ps, pos) == 0 <= pos /\ pos < Len(ps)

(* Op after the position checks.  A missing key leaves pos at zero.        *)
partPositionOp(l1, l2) ==
  LET opAdd == IF ~l1.ok THEN DeltaAdd ELSE Unset
      opRm == IF ~l2.ok THEN DeltaRemove ELSE opAdd
  IN IF l1.pos # l2.pos /\ opRm = Unset THEN DeltaMove ELSE opRm

(* The test that promotes a part kept on both sides to an update.          *)
bodyTriggersUpdate(part1, part2) == part1.Body = part2.Body

partBodyOp(op, part1, part2) ==
  IF op # DeltaAdd /\ op # DeltaRemove /\ bodyTriggersUpdate(part1, part2)
  THEN IF op = DeltaMove THEN DeltaMoveUpdate ELSE DeltaUpdate
  ELSE op

partHeadersOp(op, headers) ==
  IF DOMAIN headers # {} /\ op = Unset THEN DeltaUpdate
  ELSE IF DOMAIN headers # {} /\ op = DeltaMove THEN DeltaMoveUpdate
  ELSE op

partSHA256From(part1, part2) ==
  IF ~part1.Inline THEN part1.SHA256 ELSE EmptyString

partSHA256To(part1, part2) ==
  IF ~part2.Inline THEN part1.SHA256 ELSE EmptyString

partBody(part1, part2) ==
  IF part1.Inline /\ ~part2.Inline
  THEN deltaFromStrings(EmptyString, part2.Body)
  ELSE IF ~part1.Inline /\ part2.Inline
  THEN deltaFromStrings(part1.Body, EmptyString)
  ELSE IF part1.Inline /\ part2.Inline
  THEN deltaFromStrings(part1.Body, part2.Body)
  ELSE EmptyString

(* Does the iteration for this part index out of range?                    *)
partStepPanics(ps1, ps2, part) ==
  \/ ~InRange(ps1, Lookup(PartIDs(ps1), part.ID).pos)
  \/ ~InRange(ps2, Lookup(PartIDs(ps2), part.ID).pos)

(* One iteration of the loop over longer that does not panic: the deltas   *)
(* it appends.                                                             *)
partStep(ps1, ps2, part) ==
  LET l1 == Lookup(PartIDs(ps1), part.ID)
      l2 == Lookup(PartIDs(ps2), part.ID)
      part1 == ps1[l1.pos + 1]
      part2 == ps2[l2.pos + 1]
      headers == diffHeaders(part1.Headers, part2.Headers)
      op == partHeadersOp(partBodyOp(partPositionOp(l1, l2), part1, part2),
                          headers)
  IN IF op = Unset THEN <<>>
     ELSE <<PartDelta(part.ID, op, l1.pos, l2.pos, headers,
                      partBody(part1, part2),
                      partSHA256From(part1, part2),
                      partSHA256To(part1, part2))>>

longerParts(ps1, ps2) == IF Len(ps2) > Len(ps1) THEN ps2 ELSE ps1

diffPartsPanics(ps1, ps2) ==
  LET longer == longerParts(ps1, ps2)
  IN \E i \in 1..Len(longer) : partStepPanics(ps1, ps2, longer[i])

diffParts(ps1, ps2) ==
  LET longer == longerParts(ps1, ps2)
  IN Concat([i \in 1..Len(longer) |-> partStep(ps1, ps2, longer[i])])

-----------------------------------------------------------------------------
(* GenerateRevision *)

ZeroRevision ==
  [ID |-> "", Public |-> FALSE, Reason |-> "", TitleDelta |-> EmptyString,
   SlugDelta |-> EmptyString, AuthorsDeltas |-> <<>>, PartsDeltas |-> <<>>,
   MetadataDeltas |-> <<>>]

NoError == "nil"
IDMismatch == "post IDs must match"

(* Variant: the identity check is left out.                                *)
idsMatchAlways(a, b) == TRUE

idsMatch(a, b) == a.ID = b.ID

(* Variant: the title is diffed without the inequality guard.              *)
titleDeltaUnguarded(a, b) == deltaFromStrings(a.Title, b.Title)

titleDelta(a, b) ==
  IF a.Title # b.Title THEN deltaFromStrings(a.Title, b.Title)
  ELSE EmptyString

slugDelta(a, b) ==
  IF a.Slug # b.Slug THEN deltaFromStrings(a.Slug, b.Slug) ELSE EmptyString

GenerateRevisionPanics(a, b) ==
  /\ idsMatch(a, b)
  /\ \/ diffPartsPanics(a.Parts, b.Parts)
     \/ diffPartsPanics(a.Metadata, b.Metadata)

(* Variant: the metadata is not diffed.                                    *)
GenerateRevisionRevNoMetadata(a, b) ==
  IF ~idsMatch(a, b) THEN ZeroRevision
  ELSE [ZeroRevision EXCEPT
          !.TitleDelta = titleDelta(a, b),
          !.SlugDelta = slugDelta(a, b),
          !.AuthorsDeltas = diffAuthors(a.Authors, b.Authors),
          !.PartsDeltas = diffParts(a.Parts, b.Parts)]

GenerateRevisionRev(a, b) ==
  IF ~idsMatch(a, b) THEN ZeroRevision
  ELSE [ZeroRevision EXCEPT
          !.TitleDelta = titleDelta(a, b),
          !.SlugDelta = slugDelta(a, b),
          !.AuthorsDeltas = diffAuthors(a.Authors, b.Authors),
          !.PartsDeltas = diffParts(a.Parts, b.Parts),
          !.MetadataDeltas = diffParts(a.Metadata, b.Metadata)]

GenerateRevisionErr(a, b) == IF ~idsMatch(a, b) THEN IDMismatch ELSE NoError

(* The call.  pc is "call" before it, "returned" once it has returned its  *)
(* two results, "panicked" when it was aborted by a run-time panic and     *)
(* returned nothing.                                                       *)
GenerateRevision ==
  /\ pc = "call"
  /\ IF GenerateRevisionPanics(p1, p2)
     THEN /\ pc' = "panicked"
          /\ UNCHANGED <<rev, err>>
     ELSE /\ pc' = "returned"
          /\ rev' = GenerateRevisionRev(p1, p2)
          /\ err' = GenerateRevisionErr(p1, p2)
  /\ UNCHANGED <<p1, p2, filter, pcFilter, isEmpty>>

-----------------------------------------------------------------------------
(* PostFilter and IsEmpty.  A pointer field is Nil or the value it points  *)
(* to; the zero value of StringListFilterMode is the empty string.         *)

StringListFilterModeInvalid == ""
StringListFilterModeExact == "exact"
StringListFilterModeExactUnordered == "exact_unordered"
StringListFilterModeContainsAll == "contains_all"
StringListFilterModeContainsAny == "contains_any"
StringListFilterModeExcludes == "excludes"

StringListFilterModes ==
  {StringListFilterModeInvalid, StringListFilterModeExact,
   StringListFilterModeExactUnordered, StringListFilterModeContainsAll,
   StringListFilterModeContainsAny, StringListFilterModeExcludes}

Nil == "nil"

PostFilter(slug, authors, aMode, before, after, draft, streams, sMode) ==
  [Slug |-> slug, Authors |-> authors, AuthorsMode |-> aMode,
   PublishedBefore |-> before, PublishedAfter |-> after, Draft |-> draft,
   Streams |-> streams, StreamsMode |-> sMode]

ZeroPostFilter ==
  PostFilter(Nil, <<>>, StringListFilterModeInvalid, Nil, Nil, Nil, <<>>,
             StringListFilterModeInvalid)

IsEmpty(p) ==
  IF p.Slug # Nil THEN FALSE
  ELSE IF Len(p.Authors) # 0 THEN FALSE
  ELSE IF p.AuthorsMode = StringListFilterModeInvalid THEN FALSE
  ELSE IF p.PublishedBefore # Nil THEN FALSE
  ELSE IF p.PublishedAfter # Nil THEN FALSE
  ELSE IF p.Draft # Nil THEN FALSE
  ELSE IF Len(p.Streams) # 0 THEN FALSE
  ELSE IF p.StreamsMode = StringListFilterModeInvalid THEN FALSE
  ELSE TRUE

(* The call of IsEmpty on the filter.                                      *)
PostFilterIsEmpty ==
  /\ pcFilter = "call"
  /\ pcFilter' = "returned"
  /\ isEmpty' = IsEmpty(filter)
  /\ UNCHANGED <<p1, p2, pc, rev, err, filter>>

-----------------------------------------------------------------------------
(* The Posts handed to GenerateRevision.  A Post carries the fields the    *)
(* call reads; a Part likewise (Position is never read).  SHA256 is the    *)
(* sum of Body, as the Part type documents it.                             *)

MaxAuthors == 3
MaxParts == 2

PostIDs == {"post1", "post2"}
Texts == {<<>>, <<"a">>, <<"b">>, <<"a", "b">>, <<"a", "a", "b">>}
AuthorIDs == {"a", "b", "c"}
PartKeys == {"p", "q", "r"}
Bodies == {<<"a">>, <<"b">>}
NoHeaders == <<>>

SHA256Sum(body) == <<"sha256">> \o body

Part(id, headers, body, inline) ==
  [ID |-> id, Headers |-> headers, Body |-> body, Inline |-> inline,
   SHA256 |-> SHA256Sum(body)]

Post(id, title, slug, authors, parts, metadata) ==
  [ID |-> id, Title |-> title, Slug |-> slug, Authors |-> authors,
   Parts |-> parts, Metadata |-> metadata]

SeqsUpTo(S, n) == UNION {[1..k -> S] : k \in 0..n}

NoRepeat(s) == \A i, j \in 1..Len(s) : i # j => s[i] # s[j]

AuthorLists == SeqsUpTo(AuthorIDs, MaxAuthors)

PlainParts == {Part(id, NoHeaders, body, inline) :
                 id \in PartKeys, body \in Bodies, inline \in BOOLEAN}

PartLists == {ps \in SeqsUpTo(PlainParts, MaxParts) : NoRepeat(PartIDs(ps))}

InitCall ==
  /\ pc = "call"
  /\ rev = ZeroRevision
  /\ err = NoError
  /\ filter = ZeroPostFilter
  /\ pcFilter = "idle"
  /\ isEmpty = FALSE

(* Title, slug and ID vary; the lists are a few fixed ones, among them     *)
(* a pair whose diff would index out of range.                             *)
OtherFields ==
  LET pa == Part("p", NoHeaders, <<"a">>, TRUE)
      pb == Part("p", NoHeaders, <<"b">>, FALSE)
  IN {<<<<>>, <<>>, <<>>, <<>>>>,
      <<<<"a">>, <<"b", "a">>, <<pa>>, <<pb>>>>,
      <<<<"a">>, <<"a">>, <<pa>>, <<>>>>}

InitScalars ==
  /\ InitCall
  /\ \E id1, id2 \in PostIDs, t1, t2, s1, s2 \in Texts, o \in OtherFields :
       /\ p1 = Post(id1, t1, s1, o[1], o[3], o[3])
       /\ p2 = Post(id2, t2, s2, o[2], o[4], o[4])

InitAuthors ==
  /\ InitCall
  /\ \E a1, a2 \in AuthorLists :
       /\ p1 = Post("post1", <<"a">>, <<"a">>, a1, <<>>, <<>>)
       /\ p2 = Post("post1", <<"a">>, <<"a">>, a2, <<>>, <<>>)

(* The part lists vary, as the Parts of the two Posts or as their         *)
(* Metadata.                                                               *)
InitParts ==
  /\ InitCall
  /\ \E ps1, ps2 \in PartLists :
       \/ /\ p1 = Post("post1", <<"a">>, <<"a">>, <<>>, ps1, <<>>)
          /\ p2 = Post("post1", <<"a">>, <<"a">>, <<>>, ps2, <<>>)
       \/ /\ p1 = Post("post1", <<"a">>, <<"a">>, <<>>, <<>>, ps1)
          /\ p2 = Post("post1", <<"a">>, <<"a">>, <<>>, <<>>, ps2)

Next == GenerateRevision

SpecScalars == InitScalars /\ [][Next]_vars
SpecAuthors == InitAuthors /\ [][Next]_vars
SpecParts == InitParts /\ [][Next]_vars

-----------------------------------------------------------------------------
(* Helpers of the properties below.                                        *)

Returned == pc = "returned"

(* What a compact delta does to a text: "=n" keeps the next n characters,  *)
(* "-n" drops them, "+text" inserts text; what is left is dropped.         *)
RECURSIVE ApplyDelta(_, _)
ApplyDelta(text, delta) ==
  IF delta = <<>> THEN <<>>
  ELSE LET tok == Head(delta)
       IN IF tok.Sign = "+" THEN tok.Text \o ApplyDelta(text, Tail(delta))
          ELSE IF tok.Sign = "="
          THEN Take(text, tok.N) \o ApplyDelta(Drop(text, tok.N), Tail(delta))
          ELSE ApplyDelta(Drop(text, tok.N), Tail(delta))

-----------------------------------------------------------------------------
(* C1: for Posts with different IDs GenerateRevision returns (it does not  *)
(* abort), the error is non-nil and every field of the Revision is the     *)
(* zero value, whatever the titles, slugs, authors, parts and metadata.    *)
C1_MismatchIsRejected ==
  (pc # "call" /\ p1.ID # p2.ID)
    => (Returned /\ err = IDMismatch /\ err # NoError /\ rev = ZeroRevision)

(* C1 witness: a rejected pair whose other fields all differ and whose     *)
(* part lists could not have been diffed.                                  *)
C1_Witness ==
  /\ Returned
  /\ p1.ID # p2.ID
  /\ p1.Title # p2.Title
  /\ p1.Slug # p2.Slug
  /\ p1.Parts # <<>>
  /\ p2.Parts = <<>>
  /\ err = IDMismatch

-----------------------------------------------------------------------------
(* C10: for Posts with equal IDs, TitleDelta is the text delta of the two  *)
(* titles (one that rebuilds the new title from the old) exactly when the  *)
(* titles differ and is empty when they are equal; likewise SlugDelta and  *)
(* the slugs, each independently of the other.                             *)
C10_TitleAndSlugDeltas ==
  (Returned /\ p1.ID = p2.ID)
    => /\ p1.Title = p2.Title => rev.TitleDelta = EmptyString
       /\ p1.Title # p2.Title
            => /\ rev.TitleDelta = deltaFromStrings(p1.Title, p2.Title)
               /\ rev.TitleDelta # EmptyString
               /\ ApplyDelta(p1.Title, rev.TitleDelta) = p2.Title
       /\ p1.Slug = p2.Slug => rev.SlugDelta = EmptyString
       /\ p1.Slug # p2.Slug
            => /\ rev.SlugDelta = deltaFromStrings(p1.Slug, p2.Slug)
               /\ rev.SlugDelta # EmptyString
               /\ ApplyDelta(p1.Slug, rev.SlugDelta) = p2.Slug

(* C10 witness: only the title changed, and only TitleDelta is set.        *)
C10_Witness ==
  /\ Returned
  /\ p1.ID = p2.ID
  /\ p1.Title = <<"a", "b">>
  /\ p2.Title = <<"a", "a", "b">>
  /\ p1.Slug = p2.Slug
  /\ p1.Slug # EmptyString
  /\ rev.TitleDelta # EmptyString
  /\ rev.SlugDelta = EmptyString

-----------------------------------------------------------------------------
(* Author lists of the shapes the properties below are about.              *)

Distinct3(x, y, z) == x # y /\ y # z /\ x # z

(* The authors of s that do not occur in t, by index.                      *)
OnlyIn(s, t) == {i \in 1..Len(s) : \A j \in 1..Len(t) : t[j] # s[i]}

HasDelta(deltas, d) == \E k \in 1..Len(deltas) : deltas[k] = d

(* C5: for before = [a, b] and after = [a, c] diffAuthors returns exactly  *)
(* two deltas, an Add -1 -> 1 and a Remove 1 -> -1; and for lists of equal *)
(* length every author only in the after list has an Add delta and every   *)
(* author only in the before list has a Remove delta.                      *)
C5_ReplacementAddsAndRemoves ==
  (Returned /\ Len(p1.Authors) = Len(p2.Authors))
    => LET ds == rev.AuthorsDeltas
           add(j) == AuthorsDelta(DeltaAdd, -1, j - 1)
           rm(i) == AuthorsDelta(DeltaRemove, i - 1, -1)
       IN /\ \A j \in OnlyIn(p2.Authors, p1.Authors) : HasDelta(ds, add(j))
          /\ \A i \in OnlyIn(p1.Authors, p2.Authors) : HasDelta(ds, rm(i))
          /\ ( /\ Len(p1.Authors) = 2
               /\ p1.Authors[1] = p2.Authors[1]
               /\ Distinct3(p1.Authors[1], p1.Authors[2], p2.Authors[2]) )
             => ds \in {<<add(2), rm(2)>>, <<rm(2), add(2)>>}

(* C6 as stated: for before = [a, b, c] and after = [b, c, a] diffAuthors  *)
(* returns exactly one delta, a Move 0 -> 2.                               *)
IsRotation ==
  /\ Len(p1.Authors) = 3
  /\ Distinct3(p1.Authors[1], p1.Authors[2], p1.Authors[3])
  /\ p2.Authors = <<p1.Authors[2], p1.Authors[3], p1.Authors[1]>>

-----------------------------------------------------------------------------
(* Part lists: diffParts is applied to the Parts and to the Metadata of    *)
(* the two Posts, and the properties below are stated of both uses.        *)

Diffed ==
  {<<p1.Parts, p2.Parts, rev.PartsDeltas>>,
   <<p1.Metadata, p2.Metadata, rev.MetadataDeltas>>}

DeltasFor(deltas, id) == SelectSeq(deltas, LAMBDA d : d.PartID = id)

(* The part at index i of the before list is the part at index j of the    *)
(* after list.                                                             *)
SamePart(ps1, ps2, i, j) ==
  /\ i \in 1..Len(ps1)
  /\ j \in 1..Len(ps2)
  /\ ps1[i].ID = ps2[j].ID

UpdateOp(i, j) == IF i = j THEN DeltaUpdate ELSE DeltaMoveUpdate

(* C2: GenerateRevision(P, P) returns no error and a Revision whose        *)
(* TitleDelta and SlugDelta are empty and whose AuthorsDeltas, PartsDeltas *)
(* and MetadataDeltas have no entries, also when P has Parts or Metadata.  *)
C2_IdentityIsEmpty ==
  (pc # "call" /\ p1 = p2)
    => /\ Returned
       /\ err = NoError
       /\ rev.TitleDelta = EmptyString
       /\ rev.SlugDelta = EmptyString
       /\ rev.AuthorsDeltas = <<>>
       /\ rev.PartsDeltas = <<>>
       /\ rev.MetadataDeltas = <<>>

(* C3: for Posts with equal IDs GenerateRevision always completes and      *)
(* returns a nil error, whatever the part lists are.                       *)
C3_MatchingIDsNeverFail ==
  (pc # "call" /\ p1.ID = p2.ID) => (Returned /\ err = NoError)

(* C4: a part kept on both sides with equal headers, inline on both sides, *)
(* whose bodies differ has exactly one delta, Update at an unchanged index *)
(* and MoveUpdate at a changed one, with both positions and the text delta *)
(* of the old body against the new; with equal bodies it has no Update or  *)
(* MoveUpdate delta.                                                       *)
C4_ContentChangeIsUpdate ==
  Returned =>
    \A t \in Diffed : \A i \in 1..Len(t[1]), j \in 1..Len(t[2]) :
      ( /\ SamePart(t[1], t[2], i, j)
        /\ t[1][i].Headers = t[2][j].Headers
        /\ t[1][i].Inline
        /\ t[2][j].Inline )
      => LET mine == DeltasFor(t[3], t[1][i].ID)
         IN IF t[1][i].Body # t[2][j].Body
            THEN /\ Len(mine) = 1
                 /\ mine[1].Op = UpdateOp(i, j)
                 /\ mine[1].FromPosition = i - 1
                 /\ mine[1].ToPosition = j - 1
                 /\ mine[1].Body = deltaFromStrings(t[1][i].Body, t[2][j].Body)
            ELSE \A k \in 1..Len(mine) :
                   mine[k].Op \notin {DeltaUpdate, DeltaMoveUpdate}

(* C7: a part kept on both sides, inline before and non-inline after, has  *)
(* one delta: Update (MoveUpdate when its index changed), SHA256To the     *)
(* hash of the after side, SHA256From empty, Body the deletion of the old  *)
(* body.                                                                   *)
C7_InlineToBlob ==
  Returned =>
    \A t \in Diffed : \A i \in 1..Len(t[1]), j \in 1..Len(t[2]) :
      ( /\ SamePart(t[1], t[2], i, j)
        /\ t[1][i].Inline
        /\ ~t[2][j].Inline )
      => LET mine == DeltasFor(t[3], t[1][i].ID)
         IN /\ Len(mine) = 1
            /\ mine[1].Op = UpdateOp(i, j)
            /\ mine[1].SHA256To = t[2][j].SHA256
            /\ mine[1].SHA256From = EmptyString
            /\ mine[1].Body = deltaFromStrings(t[1][i].Body, EmptyString)

(* C8: every delta of a part that is non-inline before and inline after    *)
(* has SHA256From the hash of the before side, SHA256To empty and Body the *)
(* insertion of the new body.                                              *)
C8_BlobToInline ==
  Returned =>
    \A t \in Diffed : \A i \in 1..Len(t[1]), j \in 1..Len(t[2]) :
      ( /\ SamePart(t[1], t[2], i, j)
        /\ ~t[1][i].Inline
        /\ t[2][j].Inline )
      => LET mine == DeltasFor(t[3], t[1][i].ID)
         IN \A k \in 1..Len(mine) :
              /\ mine[k].SHA256From = t[1][i].SHA256
              /\ mine[k].SHA256To = EmptyString
              /\ mine[k].Body = deltaFromStrings(EmptyString, t[2][j].Body)

(* C9: every delta of a part that is non-inline on both sides has          *)
(* SHA256From and SHA256To the hashes of the before and the after side and *)
(* an empty Body; every delta of a part that is inline on both sides has   *)
(* the text delta of the two bodies as Body and both hashes empty.         *)
C9_BlobToBlobAndTextToText ==
  Returned =>
    \A t \in Diffed : \A i \in 1..Len(t[1]), j \in 1..Len(t[2]) :
      SamePart(t[1], t[2], i, j)
      => LET mine == DeltasFor(t[3], t[1][i].ID)
         IN \A k \in 1..Len(mine) :
              /\ (~t[1][i].Inline /\ ~t[2][j].Inline)
                   => /\ mine[k].SHA256From = t[1][i].SHA256
                      /\ mine[k].SHA256To = t[2][j].SHA256
                      /\ mine[k].Body = EmptyString
              /\ (t[1][i].Inline /\ t[2][j].Inline)
                   => /\ mine[k].Body
                           = deltaFromStrings(t[1][i].Body, t[2][j].Body)
                      /\ mine[k].SHA256From = EmptyString
                      /\ mine[k].SHA256To = EmptyString

-----------------------------------------------------------------------------
(* Posts whose Parts and Metadata are both filled: the Metadata vary over  *)
(* the lists of inline parts, the Parts over a few fixed pairs.            *)

InlineLists == {ps \in PartLists : \A i \in 1..Len(ps) : ps[i].Inline}

PartsPairs ==
  LET pa == Part("p", NoHeaders, <<"a">>, TRUE)
      pb == Part("p", NoHeaders, <<"b">>, FALSE)
      qa == Part("q", NoHeaders, <<"a">>, FALSE)
  IN {<<<<>>, <<>>>>, <<<<pa>>, <<pb>>>>, <<<<pa, qa>>, <<qa, pb>>>>,
      <<<<qa>>, <<qa, pa>>>>}

InitMetadata ==
  /\ InitCall
  /\ \E ms1, ms2 \in InlineLists, pp \in PartsPairs, t \in {<<"a">>, <<"b">>} :
       /\ p1 = Post("post1", <<"a">>, <<"a">>, <<"a">>, pp[1], ms1)
       /\ p2 = Post("post1", t, <<"a">>, <<"b">>, pp[2], ms2)

SpecMetadata == InitMetadata /\ [][Next]_vars

(* The Post with its Parts and Metadata exchanged, and the Post reduced to *)
(* its ID and one of the two lists.                                        *)
SwapLists(a) == [a EXCEPT !.Parts = a.Metadata, !.Metadata = a.Parts]

OnlyParts(a) == Post(a.ID, EmptyString, EmptyString, <<>>, a.Parts, <<>>)

OnlyMetadata(a) == Post(a.ID, EmptyString, EmptyString, <<>>, <<>>, a.Metadata)

(* C11: the MetadataDeltas of GenerateRevision(A, B) are the PartsDeltas   *)
(* of GenerateRevision(A', B') where A', B' carry the Metadata of A, B as  *)
(* their Parts; PartsDeltas depends on the two Parts lists only and        *)
(* MetadataDeltas on the two Metadata lists only.                          *)
C11_MetadataDiffedLikeParts ==
  (Returned /\ p1.ID = p2.ID)
    => /\ rev.MetadataDeltas
            = GenerateRevisionRev(SwapLists(p1), SwapLists(p2)).PartsDeltas
       /\ rev.MetadataDeltas
            = GenerateRevisionRev(OnlyParts(SwapLists(p1)),
                                  OnlyParts(SwapLists(p2))).PartsDeltas
       /\ rev.PartsDeltas
            = GenerateRevisionRev(OnlyParts(p1), OnlyParts(p2)).PartsDeltas
       /\ rev.MetadataDeltas
            = GenerateRevisionRev(OnlyMetadata(p1),
                                  OnlyMetadata(p2)).MetadataDeltas

(* C11 witness: Parts and Metadata both changed, differently, and both     *)
(* were diffed.                                                            *)
C11_Witness ==
  /\ Returned
  /\ rev.PartsDeltas # <<>>
  /\ rev.MetadataDeltas # <<>>
  /\ rev.PartsDeltas # rev.MetadataDeltas
  /\ Len(p1.Metadata) = 2
  /\ Len(p2.Metadata) = 1
  /\ p1.Parts # p2.Parts

-----------------------------------------------------------------------------
(* The inverse reading of a Revision: in every delta Add and Remove are    *)
(* exchanged and so are FromPosition and ToPosition.                       *)

InvertOp(op) ==
  IF op = DeltaAdd THEN DeltaRemove
  ELSE IF op = DeltaRemove THEN DeltaAdd
  ELSE op

InvertDelta(d) ==
  [d EXCEPT !.Op = InvertOp(d.Op), !.FromPosition = d.ToPosition,
            !.ToPosition = d.FromPosition]

InvertDeltas(ds) == [k \in 1..Len(ds) |-> InvertDelta(ds[k])]

InvertPartDelta(d) ==
  [InvertDelta(d) EXCEPT
     !.Headers = [h \in DOMAIN d.Headers |-> InvertDeltas(d.Headers[h])]]

InvertRevision(r) ==
  [r EXCEPT
     !.AuthorsDeltas = InvertDeltas(r.AuthorsDeltas),
     !.PartsDeltas = [k \in 1..Len(r.PartsDeltas) |->
                        InvertPartDelta(r.PartsDeltas[k])],
     !.MetadataDeltas = [k \in 1..Len(r.MetadataDeltas) |->
                           InvertPartDelta(r.MetadataDeltas[k])]]

AuthorsPost(authors) == Post("post1", <<"a">>, <<"a">>, authors, <<>>, <<>>)

(* Some pair of Posts with equal IDs whose reverse diff is not the inverse *)
(* of its forward diff.                                                    *)
ReverseIsNotInverseSomewhere ==
  \E a1, a2 \in AuthorLists :
    GenerateRevisionRev(AuthorsPost(a2), AuthorsPost(a1))
      # InvertRevision(GenerateRevisionRev(AuthorsPost(a1), AuthorsPost(a2)))

(* Some pair of Posts with equal IDs whose two diffs differ.               *)
NotCommutativeSomewhere ==
  \E a1, a2 \in AuthorLists :
    GenerateRevisionRev(AuthorsPost(a2), AuthorsPost(a1))
      # GenerateRevisionRev(AuthorsPost(a1), AuthorsPost(a2))

ProperPrefix(s, t) == Len(s) < Len(t) /\ SubSeq(t, 1, Len(s)) = s

(* C12: the reverse diff of some pair of Posts is not the inverse of their *)
(* forward diff, and the two arguments are never reordered: the first is   *)
(* the before side, so authors appended to the first argument's list are   *)
(* Adds and authors cut from its end are Removes.                          *)
C12_OrderOfArgumentsMatters ==
  /\ NotCommutativeSomewhere
  /\ ReverseIsNotInverseSomewhere
  /\ Returned =>
       /\ (ProperPrefix(p1.Authors, p2.Authors) /\ NoRepeat(p2.Authors))
            => rev.AuthorsDeltas
                 = [k \in 1..(Len(p2.Authors) - Len(p1.Authors)) |->
                      AuthorsDelta(DeltaAdd, -1, Len(p1.Authors) + k - 1)]
       /\ (ProperPrefix(p2.Authors, p1.Authors) /\ NoRepeat(p1.Authors))
            => rev.AuthorsDeltas
                 = [k \in 1..(Len(p1.Authors) - Len(p2.Authors)) |->
                      AuthorsDelta(DeltaRemove, Len(p2.Authors) + k - 1, -1)]

(* C12 witness: a diffed pair whose reverse diff is not the inverse.       *)
C12_Witness ==
  /\ Returned
  /\ p1.Authors = <<"a", "b">>
  /\ p2.Authors = <<"a", "c">>
  /\ GenerateRevisionRev(p2, p1) # InvertRevision(rev)

-----------------------------------------------------------------------------
(* The list rules, stated for one item of a list without repeats.          *)

IndexOf(s, x) ==
  IF \E i \in 1..Len(s) : s[i] = x
  THEN (CHOOSE i \in 1..Len(s) : s[i] = x) - 1
  ELSE -1

ListRule(before, after, x) ==
  LET from == IndexOf(before, x)
      to == IndexOf(after, x)
  IN IF from = -1 THEN <<[Op |-> DeltaAdd, FromPosition |-> -1,
                          ToPosition |-> to]>>
     ELSE IF to = -1 THEN <<[Op |-> DeltaRemove, FromPosition |-> from,
                             ToPosition |-> -1]>>
     ELSE IF from # to THEN <<[Op |-> DeltaMove, FromPosition |-> from,
                               ToPosition |-> to]>>
     ELSE <<>>

ListRules(before, after, visited) ==
  Concat([i \in 1..Len(visited) |-> ListRule(before, after, visited[i])])

(* The lists a diff may visit: the longer one, either one on equal lengths. *)
LongerOf(before, after) ==
  IF Len(before) > Len(after) THEN {before}
  ELSE IF Len(after) > Len(before) THEN {after}
  ELSE {before, after}

C15_RemoveReached ==
  /\ Returned
  /\ p1.Authors = <<"a", "c", "b">>
  /\ p2.Authors = <<"b", "a">>
  /\ rev.AuthorsDeltas = <<AuthorsDelta(DeltaMove, 0, 1),
                           AuthorsDelta(DeltaRemove, 1, -1),
                           AuthorsDelta(DeltaMove, 2, 0)>>

-----------------------------------------------------------------------------
(* The PartDeltas of a list that name the given Part ID.                   *)
PartDeltasOf(deltas, id) == {k \in 1..Len(deltas) : deltas[k].PartID = id}

(* Headers of a delta for a Part that exists on one side only.             *)
HeadersOfAdded(part) == diffHeaders(NoHeaders, part.Headers)
HeadersOfRemoved(part) == diffHeaders(part.Headers, NoHeaders)

AddedPartDelta(deltas, part, index) ==
  /\ Cardinality(PartDeltasOf(deltas, part.ID)) = 1
  /\ \A k \in PartDeltasOf(deltas, part.ID) :
       /\ deltas[k].Op = DeltaAdd
       /\ deltas[k].FromPosition = -1
       /\ deltas[k].ToPosition = index
       /\ deltas[k].Headers = HeadersOfAdded(part)
       /\ deltas[k].Body \in {EmptyString,
                              deltaFromStrings(EmptyString, part.Body)}

RemovedPartDelta(deltas, part, index) ==
  /\ Cardinality(PartDeltasOf(deltas, part.ID)) = 1
  /\ \A k \in PartDeltasOf(deltas, part.ID) :
       /\ deltas[k].Op = DeltaRemove
       /\ deltas[k].FromPosition = index
       /\ deltas[k].ToPosition = -1
       /\ deltas[k].Headers = HeadersOfRemoved(part)
       /\ deltas[k].Body \in {EmptyString,
                              deltaFromStrings(part.Body, EmptyString)}

(* C16: with Part IDs not repeated, when the after Parts are longer every  *)
(* Part ID absent from the before Parts yields exactly one PartDelta, an   *)
(* Add from -1 to its index in the after Parts; when the before Parts are  *)
(* longer every Part ID absent from the after Parts yields exactly one     *)
(* PartDelta, a Remove from its index to -1; Headers and Body of such a    *)
(* delta come from that Part alone.                                        *)
C16_PartAddRemove ==
  (/\ Returned
   /\ NoRepeat(PartIDs(p1.Parts))
   /\ NoRepeat(PartIDs(p2.Parts)))
    => /\ Len(p2.Parts) > Len(p1.Parts)
            => \A j \in 1..Len(p2.Parts) :
                 IndexOf(PartIDs(p1.Parts), p2.Parts[j].ID) = -1
                   => AddedPartDelta(rev.PartsDeltas, p2.Parts[j], j - 1)
       /\ Len(p1.Parts) > Len(p2.Parts)
            => \A i \in 1..Len(p1.Parts) :
                 IndexOf(PartIDs(p2.Parts), p1.Parts[i].ID) = -1
                   => RemovedPartDelta(rev.PartsDeltas, p1.Parts[i], i - 1)

-----------------------------------------------------------------------------
(* Posts whose Parts carry headers.  The part p has a header map drawn     *)
(* from HeaderMaps on each side; the part q is the same on both sides.     *)

MaxValues == 2

HeaderNames == {"X", "Y"}
HeaderVals == {"one", "two", "three"}

ValueLists == {vs \in SeqsUpTo(HeaderVals, MaxValues) : NoRepeat(vs)}

HeaderMaps ==
  UNION {{[name \in names |-> IF name = "X" THEN xs ELSE <<"one">>] :
            xs \in ValueLists} : names \in SUBSET HeaderNames}

PartQ == Part("q", NoHeaders, <<"a">>, TRUE)

PartShapes(part) ==
  {<<>>, <<part>>, <<part, PartQ>>, <<PartQ, part>>, <<PartQ>>}

InitHeaders ==
  /\ InitCall
  /\ \E h1, h2 \in HeaderMaps, b1, b2 \in Bodies :
       \E ps1 \in PartShapes(Part("p", h1, b1, TRUE)),
          ps2 \in PartShapes(Part("p", h2, b2, TRUE)) :
         /\ p1 = Post("post1", <<"a">>, <<"a">>, <<"a">>, ps1, <<>>)
         /\ p2 = Post("post1", <<"a">>, <<"a">>, <<"a", "b">>, ps2, <<>>)

SpecHeaders == InitHeaders /\ [][Next]_vars

Range(s) == {s[i] : i \in 1..Len(s)}

(* C13: every delta names its item: an AuthorsDelta holds in Value the     *)
(* author ID it is about, a PartDelta holds in PartID the ID of its Part,  *)
(* and a HeaderDelta holds in Header the header name it is listed under.   *)
C13_DeltasNameTheirItem ==
  Returned =>
    /\ \A k \in 1..Len(rev.AuthorsDeltas) :
         /\ "Value" \in DOMAIN rev.AuthorsDeltas[k]
         /\ rev.AuthorsDeltas[k].Value
              \in Range(p1.Authors) \cup Range(p2.Authors)
    /\ \A k \in 1..Len(rev.PartsDeltas) :
         /\ rev.PartsDeltas[k].PartID
              \in Range(PartIDs(p1.Parts)) \cup Range(PartIDs(p2.Parts))
         /\ \A name \in DOMAIN rev.PartsDeltas[k].Headers :
              \A j \in 1..Len(rev.PartsDeltas[k].Headers[name]) :
                rev.PartsDeltas[k].Headers[name][j].Header = name

(* The part of C13 about PartID alone.                                     *)
C13_PartIDNamesThePart ==
  Returned =>
    \A k \in 1..Len(rev.PartsDeltas) :
      LET d == rev.PartsDeltas[k]
      IN \/ /\ d.ToPosition \in 0..(Len(p2.Parts) - 1)
            /\ p2.Parts[d.ToPosition + 1].ID = d.PartID
         \/ /\ d.FromPosition \in 0..(Len(p1.Parts) - 1)
            /\ p1.Parts[d.FromPosition + 1].ID = d.PartID

(* The part of C13 about Header alone.                                     *)
C13_HeaderNamesTheKey ==
  Returned =>
    \A k \in 1..Len(rev.PartsDeltas) :
      \A name \in DOMAIN rev.PartsDeltas[k].Headers :
        \A j \in 1..Len(rev.PartsDeltas[k].Headers[name]) :
          rev.PartsDeltas[k].Headers[name][j].Header = name

-----------------------------------------------------------------------------
(* The header changes diffHeaders reports for a Part found at index i of   *)
(* the before Parts and at index j of the after Parts.                     *)
HeaderChanges(i, j) == diffHeaders(p1.Parts[i].Headers, p2.Parts[j].Headers)

OnOneSideOnly(id) ==
  (IndexOf(PartIDs(p1.Parts), id) = -1) # (IndexOf(PartIDs(p2.Parts), id) = -1)

(* C17, promotion: a Part on both sides whose headers changed has one      *)
(* PartDelta, an Update at an unchanged index and a MoveUpdate otherwise.  *)
C17_HeaderChangePromotes ==
  Returned =>
    \A i \in 1..Len(p1.Parts), j \in 1..Len(p2.Parts) :
      (SamePart(p1.Parts, p2.Parts, i, j) /\ DOMAIN HeaderChanges(i, j) # {})
        => /\ Len(DeltasFor(rev.PartsDeltas, p1.Parts[i].ID)) = 1
           /\ DeltasFor(rev.PartsDeltas, p1.Parts[i].ID)[1].Op = UpdateOp(i, j)

(* C17, Add and Remove: the delta of a Part on one side only is an Add or  *)
(* a Remove, whatever its headers.                                         *)
C17_AddRemoveKept ==
  Returned =>
    \A k \in 1..Len(rev.PartsDeltas) :
      OnOneSideOnly(rev.PartsDeltas[k].PartID)
        => rev.PartsDeltas[k].Op
             = (IF IndexOf(PartIDs(p1.Parts), rev.PartsDeltas[k].PartID) = -1
                THEN DeltaAdd ELSE DeltaRemove)

(* C17, silence: a Part on both sides at the same index with an equal body *)
(* and no header change has no PartDelta.                                  *)
C17_UnchangedPartIsSilent ==
  Returned =>
    \A i \in 1..Len(p1.Parts) :
      (/\ SamePart(p1.Parts, p2.Parts, i, i)
       /\ p1.Parts[i].Body = p2.Parts[i].Body
       /\ DOMAIN HeaderChanges(i, i) = {})
        => DeltasFor(rev.PartsDeltas, p1.Parts[i].ID) = <<>>

(* C17: for a Part present in both Parts sequences a header change gives   *)
(* Update at an unchanged index and MoveUpdate at a changed one; a header  *)
(* change never turns an Add or Remove into another Op; a Part at the same *)
(* index with an equal body and no header change produces no PartDelta.    *)
C17_HeaderDrivenPromotion ==
  /\ C17_HeaderChangePromotes
  /\ C17_AddRemoveKept
  /\ C17_UnchangedPartIsSilent

-----------------------------------------------------------------------------
(* The header maps diffParts hands to diffHeaders for the k-th PartDelta,  *)
(* when its Part is on both sides.                                         *)
OnBothSides(id) ==
  /\ IndexOf(PartIDs(p1.Parts), id) # -1
  /\ IndexOf(PartIDs(p2.Parts), id) # -1

HeadersBefore(id) == p1.Parts[IndexOf(PartIDs(p1.Parts), id) + 1].Headers
HeadersAfter(id) == p2.Parts[IndexOf(PartIDs(p2.Parts), id) + 1].Headers

DeltasUnder(headers, name) ==
  IF name \in DOMAIN headers THEN headers[name] ELSE <<>>

Positions(hds) ==
  [k \in 1..Len(hds) |-> [Op |-> hds[k].Op,
                          FromPosition |-> hds[k].FromPosition,
                          ToPosition |-> hds[k].ToPosition]]

(* C18, keys: a name with identical value sequences is no key of the       *)
(* result, and no key maps to an empty list.                               *)
C18_OnlyChangedNames ==
  Returned =>
    \A k \in 1..Len(rev.PartsDeltas) :
      LET d == rev.PartsDeltas[k]
      IN OnBothSides(d.PartID) =>
           /\ DOMAIN d.Headers
                \subseteq DOMAIN HeadersBefore(d.PartID)
                            \cup DOMAIN HeadersAfter(d.PartID)
           /\ \A name \in DOMAIN d.Headers :
                /\ d.Headers[name] # <<>>
                /\ HeaderValues(HeadersBefore(d.PartID), name)
                     # HeaderValues(HeadersAfter(d.PartID), name)

(* C18, rules: under every header name the HeaderDeltas are the list rules *)
(* applied to the values of the longer sequence.                           *)
C18_ListRulesPerName ==
  Returned =>
    \A k \in 1..Len(rev.PartsDeltas) :
      LET d == rev.PartsDeltas[k]
      IN OnBothSides(d.PartID) =>
           \A name \in DOMAIN HeadersBefore(d.PartID)
                         \cup DOMAIN HeadersAfter(d.PartID) :
             LET v1 == HeaderValues(HeadersBefore(d.PartID), name)
                 v2 == HeaderValues(HeadersAfter(d.PartID), name)
             IN \E visited \in LongerOf(v1, v2) :
                  Positions(DeltasUnder(d.Headers, name))
                    = ListRules(v1, v2, visited)

(* C18: header maps are diffed per header name over the names of both      *)
(* maps with the list rules (Add from -1, Remove to -1, Move between two   *)
(* different indices, nothing at the same index); a name whose two value   *)
(* sequences are identical is no key of the result and no key maps to an   *)
(* empty list.                                                             *)
C18_HeaderRules ==
  /\ C18_OnlyChangedNames
  /\ C18_ListRulesPerName

-----------------------------------------------------------------------------
(* The PostFilters handed to IsEmpty; GenerateRevision is not called.      *)

PostFilters ==
  {PostFilter(slug, authors, authorsMode, before, after, draft, streams,
              streamsMode) :
     slug \in {Nil, "slug"}, authors \in {<<>>, <<"a">>},
     authorsMode \in StringListFilterModes, before \in {Nil, "t1"},
     after \in {Nil, "t0"}, draft \in {Nil, "true", "false"},
     streams \in {<<>>, <<"s">>}, streamsMode \in StringListFilterModes}

InitFilter ==
  /\ p1 = Post("post1", EmptyString, EmptyString, <<>>, <<>>, <<>>)
  /\ p2 = p1
  /\ pc = "idle"
  /\ rev = ZeroRevision
  /\ err = NoError
  /\ filter \in PostFilters
  /\ pcFilter = "call"
  /\ isEmpty = FALSE

NextFilter == PostFilterIsEmpty

SpecFilter == InitFilter /\ [][NextFilter]_vars

SomethingSet(p) ==
  \/ p.Slug # Nil
  \/ p.PublishedBefore # Nil
  \/ p.PublishedAfter # Nil
  \/ p.Draft # Nil
  \/ p.Authors # <<>>
  \/ p.Streams # <<>>

(* C14, second half: IsEmpty returns false whenever Slug, PublishedBefore, *)
(* PublishedAfter or Draft is non-nil or Authors or Streams is non-empty.  *)
C14_SetFilterIsNotEmpty ==
  (pcFilter = "returned" /\ SomethingSet(filter)) => ~isEmpty

(* C14: IsEmpty returns true for the zero PostFilter (pointers nil, lists  *)
(* empty, modes unset) and false whenever Slug, PublishedBefore,           *)
(* PublishedAfter or Draft is non-nil or Authors or Streams is non-empty.  *)
C14_IsEmpty ==
  pcFilter = "returned" =>
    /\ filter = ZeroPostFilter => isEmpty
    /\ SomethingSet(filter) => ~isEmpty

=============================================================================
